---------------------------- MODULE Spec2Model ----------------------------
(***************************************************************************)
(* Model of the predictors of cam/sgnmt/predictors/length.py.              *)
(*                                                                         *)
(* One predictor instance is modelled.  Init is the instance right after   *)
(* its constructor ran; the decoder then calls initialize, predict_next,   *)
(* get_unk_probability, consume, get_state and set_state on it.            *)
(*                                                                         *)
(* Python objects that the code shares by reference (lists, the discount   *)
(* trie) live in `heap` and the instance fields and the snapshots hold     *)
(* their addresses, so that an in-place append is seen through every       *)
(* reference, as in the program.                                           *)
(*                                                                         *)
(* Numbers.  The program computes with floats in log space.  A log         *)
(* probability x of the length models is represented by the exact          *)
(* fraction exp(x) = <<num, den>>: adding logs is multiplying fractions,   *)
(* logsumexp is adding them, NEG_INF is <<0, 1>>.  Additive scores (word   *)
(* counts, n-gram scores, length tables) are integers.                     *)
(***************************************************************************)
EXTENDS Integers, Sequences, FiniteSets, TLC

VARIABLES
    kind,      \* class of the instance
    conf,      \* the constructor's arguments
    pc,        \* "constructed", "initialized", or "raised" (an exception left an operation)
    sen,       \* current_sen_id (0 before the first initialize)
    self,      \* the instance's fields; list/trie fields are heap addresses
    heap,      \* address -> list or trie object
    snap,      \* the tuple returned by the last get_state of this sentence
    snapVal,   \* history: the contents of that tuple when get_state returned
    snapView,  \* history: what predict_next/get_unk_probability gave at that moment
    op,        \* the last operation called
    arg,       \* its argument (the consumed word, the sentence id)
    ret,       \* the value it returned
    steps,     \* history: consume calls since initialize, on the classes that keep no count
    FAIRSEQ_INITIALIZED,  \* the module global of pytorch_fairseq.py
    imported,             \* history: the calls of fairseq_utils.import_user_module
    constructions         \* history: the calls of FairseqPredictor.__init__

vars == <<kind, conf, pc, sen, self, heap, snap, snapVal, snapView, op, arg, ret, steps>>
fairseqVars == <<FAIRSEQ_INITIALIZED, imported, constructions>>

---------------------------------------------------------------------------
\* Bounds of the model

MaxConsumed == 3
MaxPrev == 2
NumSentences == 2
MaxObjects == 4
MaxScore == 8
MaxFuture == 2
MaxConstructions == 3

\* Program constants
NUM_FEATURES == 5
UNK_ID == 0
GO_ID == 1
EOS_ID == 2

\* Optional values: <<>> is None, <<x>> is x.
None == <<>>
Some(x) == <<x>>
Sentences == 1..NumSentences
Addr == 1..MaxObjects
\* The target vocabulary of the model: the reserved ids and two ordinary words.
Vocab == {UNK_ID, GO_ID, EOS_ID, 3, 4}
Words == {UNK_ID, 3, 4}

---------------------------------------------------------------------------
\* Python list and number helpers

Max(a, b) == IF a >= b THEN a ELSE b
Min(a, b) == IF a <= b THEN a ELSE b

\* s[a:b] for 0 <= a, 0 <= b
PySlice(s, a, b) == SubSeq(s, a + 1, Min(b, Len(s)))
\* s[a:] for 0 <= a
PyFrom(s, a) == SubSeq(s, a + 1, Len(s))
\* s[-m:] for m >= 0; s[-0:] is s[0:], the whole list
PyLast(s, m) ==
    IF m = 0 \/ m >= Len(s) THEN s ELSE SubSeq(s, Len(s) - m + 1, Len(s))

RECURSIVE SumSeq(_)
SumSeq(s) == IF s = <<>> THEN 0 ELSE s[1] + SumSeq(Tail(s))

RECURSIVE Pow(_, _)
Pow(b, e) == IF e <= 0 THEN 1 ELSE b * Pow(b, e - 1)

RECURSIVE Gcd(_, _)
Gcd(a, b) == IF b = 0 THEN a ELSE Gcd(b, a % b)

RECURSIVE Binom(_, _)
Binom(n, k) == IF k = 0 \/ k = n THEN 1 ELSE Binom(n - 1, k - 1) + Binom(n - 1, k)

\* numpy.dot of two vectors; a shape mismatch raises ValueError
DotDefined(a, b) == Len(a) = Len(b)
Dot(a, b) == SumSeq([i \in 1..Len(a) |-> a[i] * b[i]])

---------------------------------------------------------------------------
\* Probabilities as exact fractions <<num, den>>, den > 0, in lowest terms.
\* <<1, 0>> is +inf and <<0, 0>> is nan (in log space).

NEG_INF == <<0, 1>>
LogOne == <<1, 1>>
PosInf == <<1, 0>>
NaN == <<0, 0>>

Frac(n, d) ==
    IF d = 0 THEN (IF n = 0 THEN NaN ELSE PosInf)
    ELSE LET g == Gcd(n, d) IN <<n \div g, d \div g>>

\* a - b in log space
LogSub(a, b) ==
    IF a[2] = 0 \/ b[2] = 0 THEN NaN
    ELSE IF b[1] = 0 THEN (IF a[1] = 0 THEN NaN ELSE PosInf)
    ELSE Frac(a[1] * b[2], a[2] * b[1])

\* np.log(1.0 - np.exp(a)): log of a negative number is nan
Log1mExp(a) ==
    IF a[2] = 0 \/ a[1] > a[2] THEN NaN ELSE Frac(a[2] - a[1], a[2])

---------------------------------------------------------------------------
\* Heap of shared Python objects

Empty == <<>>

\* the lowest address no live reference holds
Fresh(live) == CHOOSE a \in Addr : a \notin live /\ \A b \in Addr : b < a => b \in live

\* unreachable objects are dropped
Gc(h, live) == [a \in Addr |-> IF a \in live THEN h[a] ELSE Empty]

---------------------------------------------------------------------------
\* NBLengthPredictor

\* The text file of source sentences, by what _analyse_sentence extracts from
\* each line: [#char, #words, #punct, #char/#words, #punct/#words].
\* Sentence 1 is "a", sentence 2 is ",. a", any further one "ab cd efg".
SrcFeatures(sid) ==
    CASE sid = 1 -> <<1, 1, 0, 1, 0>>
      [] sid = 2 -> <<4, 2, 2, 2, 1>>
      [] OTHER   -> <<9, 3, 0, 3, 0>>

\* The weight lists the constructor is called with: weight 1 on #words for r,
\* all other weights 0 (so that p = logistic(0) = 1/2), in several lengths.
WeightLens == {1, 9, 10, 11, 12}
ModelWeights(len) == [i \in 1..len |-> IF i = 2 THEN 1 ELSE 0]

NBConfs ==
    [use_point_probs : BOOLEAN, offset : {0, 1}, model_weights : {ModelWeights(l) : l \in WeightLens}]

\* __init__: logging.fatal only writes a log record and returns.
NBConstruct(c) ==
    LET mw0 == c.model_weights
        mw  == IF Len(mw0) = 2 * NUM_FEATURES THEN mw0 \o <<0, 0>> ELSE mw0
        bad == Len(mw) # 2 * NUM_FEATURES + 2
    IN  IF Len(mw) < 2
        THEN [raised |-> "IndexError", fatal_logged |-> bad]
        ELSE [raised |-> "",
              fatal_logged |-> bad,
              r_weights |-> PySlice(mw, 0, NUM_FEATURES) \o <<mw[Len(mw) - 1]>>,
              p_weights |-> PySlice(mw, NUM_FEATURES, 2 * NUM_FEATURES) \o <<mw[Len(mw)]>>,
              cur_r |-> 0, cur_p |-> NaN, max_eos_prob |-> 0,
              n_consumed |-> 0,
              prev_eos_probs |-> 0]

\* 1/(1+exp(-x)); the inputs of the model have x = 0 only
Logistic(x) == IF x = 0 THEN <<1, 2>> ELSE IF x > 0 THEN LogOne ELSE NEG_INF

\* Point masses are integers in units of 1/PmfScale.
PmfBits == MaxConsumed + NumSentences + 2
PmfScale(slf) == Pow(slf.cur_p[2], PmfBits)

\* _get_eos_point_prob: exp of
\* gammaln(n+r) - gammaln(n+1) - gammaln(r) + n*log(p) + r*log(1-p), r integer
NBGetEosPointProb(slf, n) ==
    LET r == slf.cur_r
        p == slf.cur_p
    IN  Binom(n + r - 1, n) * Pow(p[1], n) * Pow(p[2] - p[1], r)
            * Pow(p[2], PmfBits - n - r)

\* _get_max_eos_prob: the while loop
RECURSIVE NBScanMax(_, _, _, _)
NBScanMax(slf, n, n_prob, max_prob) ==
    IF n_prob # max_prob THEN max_prob
    ELSE LET np == NBGetEosPointProb(slf, n + 1)
         IN  NBScanMax(slf, n + 1, np, Max(max_prob, np))
NBGetMaxEosProb(slf) == NBScanMax(slf, 0, 0, 0)

\* The fields initialize assigns (the new list is allocated by the action).
NBInitFields(c, slf, sid, list) ==
    LET feat == SrcFeatures(sid) \o <<1>>
        \* max(EPS_R, dot): every dot product of the model's inputs is >= 1 > EPS_R
        s1 == [slf EXCEPT !.cur_r = Dot(feat, slf.r_weights),
                          !.cur_p = Logistic(Dot(feat, slf.p_weights)),
                          !.n_consumed = 0,
                          !.prev_eos_probs = list]
    IN  IF c.use_point_probs THEN [s1 EXCEPT !.max_eos_prob = NBGetMaxEosProb(s1)]
        ELSE s1

NBInitRaises(slf, sid) ==
    LET feat == SrcFeatures(sid) \o <<1>>
    IN  ~DotDefined(feat, slf.r_weights) \/ ~DotDefined(feat, slf.p_weights)

\* _get_eos_prob: the value returned, given the contents of prev_eos_probs
NBGetEosProb(c, slf, prev) ==
    LET point == NBGetEosPointProb(slf, Max(1, slf.n_consumed - c.offset))
    IN  IF c.use_point_probs THEN Frac(point, slf.max_eos_prob)
        ELSE IF prev = <<>> THEN Frac(point, PmfScale(slf))
        ELSE LogSub(Frac(point, PmfScale(slf)),
                    Log1mExp(Frac(SumSeq(prev), PmfScale(slf))))

\* _get_eos_prob: the contents of prev_eos_probs afterwards
NBGetEosProbAppends(c, slf, prev) ==
    IF c.use_point_probs THEN prev
    ELSE Append(prev, NBGetEosPointProb(slf, Max(1, slf.n_consumed - c.offset)))

\* NBLengthPredictor.predict_next had it no test of n_consumed == 0
NBPosteriorUnguarded(c, slf, prev) == (EOS_ID :> NBGetEosProb(c, slf, prev))

\* predict_next: the posterior returned
NBPosterior(c, slf, prev) ==
    IF slf.n_consumed = 0 THEN (EOS_ID :> NEG_INF)
    ELSE (EOS_ID :> NBGetEosProb(c, slf, prev))

\* NBLengthPredictor.get_unk_probability had it returned 1 - p(EOS) in point
\* mode too
NBGetUnkProbabilityComplement(c, slf, posterior) ==
    IF c.use_point_probs /\ slf.n_consumed = 0
    THEN Frac(slf.max_eos_prob, PmfScale(slf))
    ELSE Log1mExp(posterior[EOS_ID])

NBGetUnkProbability(c, slf, posterior) ==
    IF c.use_point_probs
    THEN (IF slf.n_consumed = 0 THEN Frac(slf.max_eos_prob, PmfScale(slf)) ELSE LogOne)
    ELSE IF slf.n_consumed = 0 THEN LogOne
    ELSE Log1mExp(posterior[EOS_ID])

NBGetState(slf) == <<slf.n_consumed, slf.prev_eos_probs>>
NBSetState(slf, state) == [slf EXCEPT !.n_consumed = state[1], !.prev_eos_probs = state[2]]
NBIsEqual(state1, state2) == state1[1] = state2[1]

---------------------------------------------------------------------------
\* WordCountPredictor

\* Constructor arguments: count all words (word = -1) or the word 4, with and
\* without the non-terminal penalty; terminal ids are 3..3 of a vocabulary of 5.
WCConfs ==
    [word : {-1, 4}, nonterminal_penalty : BOOLEAN, negative_wc : BOOLEAN,
     min_terminal_id : {3}, max_terminal_id : {3}, vocab_size : {5}]

\* list(range(0, min_terminal_id)) + list(range(max_terminal_id + 1, vocab_size))
NonTerminals(c) == (0..(c.min_terminal_id - 1)) \cup ((c.max_terminal_id + 1)..(c.vocab_size - 1))

\* WordCountPredictor.__init__ had it stored an EOS entry next to the word's
WCConstructWithEos(c) ==
    LET val == IF c.negative_wc THEN -1 ELSE 1
    IN  IF c.nonterminal_penalty
        THEN [posterior |-> [t \in NonTerminals(c) \cup {EOS_ID, UNK_ID} |->
                                IF t \in {EOS_ID, UNK_ID} THEN 0 ELSE val],
              unk_prob |-> 0]
        ELSE IF c.word < 0
        THEN [posterior |-> (EOS_ID :> 0), unk_prob |-> val]
        ELSE [posterior |-> (EOS_ID :> 0) @@ (c.word :> val), unk_prob |-> 0]

\* WordCountPredictor.__init__ had it ignored negative_wc
WCConstructNegative(c) ==
    LET val == -1
    IN  IF c.nonterminal_penalty
        THEN [posterior |-> [t \in NonTerminals(c) \cup {EOS_ID, UNK_ID} |->
                                IF t \in {EOS_ID, UNK_ID} THEN 0 ELSE val],
              unk_prob |-> 0]
        ELSE IF c.word < 0
        THEN [posterior |-> (EOS_ID :> 0), unk_prob |-> val]
        ELSE [posterior |-> (c.word :> val), unk_prob |-> 0]

WCConstruct(c) ==
    LET val == IF c.negative_wc THEN -1 ELSE 1
    IN  IF c.nonterminal_penalty
        THEN [posterior |-> [t \in NonTerminals(c) \cup {EOS_ID, UNK_ID} |->
                                IF t \in {EOS_ID, UNK_ID} THEN 0 ELSE val],
              unk_prob |-> 0]
        ELSE IF c.word < 0
        THEN [posterior |-> (EOS_ID :> 0), unk_prob |-> val]
        ELSE [posterior |-> (c.word :> val), unk_prob |-> 0]

WCGetUnkProbability(slf) == slf.unk_prob
WCPosterior(slf) == slf.posterior
WCGetState(slf) == TRUE
WCSetState(slf, state) == slf
WCIsEqual(state1, state2) == TRUE

---------------------------------------------------------------------------
\* WeightNonTerminalPredictor, wrapping a WordCountPredictor

WNTConfs ==
    [slave : WCConfs, penalty_factor : {1, 2},
     min_terminal_id : {3}, max_terminal_id : {3}, vocab_size : {5}]

WNTConstruct(c) ==
    [slave_predictor |-> WCConstruct(c.slave),
     mult |-> [t \in NonTerminals(c) \cup {EOS_ID, UNK_ID} |->
                 IF t \in {EOS_ID, UNK_ID} THEN 1 ELSE c.penalty_factor]]

\* predict_next: posterior[tok] *= self.mult[tok] on the dict the slave returned
WNTMultiply(posterior, mult) ==
    [t \in DOMAIN posterior |->
        IF t \in DOMAIN mult THEN posterior[t] * mult[t] ELSE posterior[t]]

WNTPosterior(slf) == WNTMultiply(WCPosterior(slf.slave_predictor), slf.mult)
WNTGetUnkProbability(slf) == WCGetUnkProbability(slf.slave_predictor)
WNTGetState(slf) == WCGetState(slf.slave_predictor)
WNTSetState(slf, state) ==
    [slf EXCEPT !.slave_predictor = WCSetState(slf.slave_predictor, state)]
WNTIsEqual(state1, state2) == WCIsEqual(state1, state2)

---------------------------------------------------------------------------
\* ExternalLengthPredictor

\* The length file, one line per sentence: "1:<ln 1/2> 3:<ln 1/4>", "2",
\* and "1 2:<ln 1/2>" for any further sentence.
ExternalLengths(sid) ==
    CASE sid = 1 -> (1 :> <<1, 2>>) @@ (3 :> <<1, 4>>)
      [] sid = 2 -> (2 :> LogOne)
      [] OTHER   -> (1 :> LogOne) @@ (2 :> <<1, 2>>)

EXTConfs == {[path |-> "lengths"]}

EXTConstruct(c) == [cur_scores |-> <<>>, max_length |-> 0, n_consumed |-> 0]

SetMax(S) == CHOOSE x \in S : \A y \in S : y <= x

\* ExternalLengthPredictor.initialize had it allowed one token more than the
\* largest tabulated length
EXTInitFieldsOneMore(slf, sid) ==
    [cur_scores |-> ExternalLengths(sid),
     max_length |-> SetMax(DOMAIN ExternalLengths(sid)) + 1,
     n_consumed |-> 0]

EXTInitFields(slf, sid) ==
    [cur_scores |-> ExternalLengths(sid),
     max_length |-> SetMax(DOMAIN ExternalLengths(sid)),
     n_consumed |-> 0]

\* ExternalLengthPredictor.predict_next had it scored EOS beyond max_length
\* with the score of max_length
EXTPosteriorClamped(slf) ==
    IF slf.n_consumed >= slf.max_length
    THEN (EOS_ID :> slf.cur_scores[slf.max_length])
    ELSE IF slf.n_consumed \in DOMAIN slf.cur_scores
    THEN (EOS_ID :> slf.cur_scores[slf.n_consumed])
    ELSE (EOS_ID :> NEG_INF)

EXTPosterior(slf) ==
    IF slf.n_consumed \in DOMAIN slf.cur_scores
    THEN (EOS_ID :> slf.cur_scores[slf.n_consumed])
    ELSE (EOS_ID :> NEG_INF)

\* ExternalLengthPredictor.get_unk_probability had it compared with <=
EXTGetUnkProbabilityInclusive(slf) ==
    IF slf.n_consumed <= slf.max_length THEN LogOne ELSE NEG_INF

EXTGetUnkProbability(slf) ==
    IF slf.n_consumed < slf.max_length THEN LogOne ELSE NEG_INF

EXTGetState(slf) == slf.n_consumed
EXTSetState(slf, state) == [slf EXCEPT !.n_consumed = state]
EXTIsEqual(state1, state2) == state1 = state2

---------------------------------------------------------------------------
\* SimpleTrie (cam.sgnmt.misc.trie) and Python dicts, as functions

TrieHas(t, key) == key \in DOMAIN t
TrieAdd(t, key, element) ==
    [k \in DOMAIN t \cup {key} |-> IF k = key THEN element ELSE t[k]]

DictGet(d, k, default) == IF k \in DOMAIN d THEN d[k] ELSE default
DictSet(d, k, v) == [x \in DOMAIN d \cup {k} |-> IF x = k THEN v ELSE d[x]]

---------------------------------------------------------------------------
\* NgramCountPredictor

\* Scores and discount factors are fixed-point numbers: DiscOne is 1.0.
DiscOne == Pow(2, MaxConsumed)
FixMul(a, b) == (a * b) \div DiscOne

\* The n-gram file of each sentence, as its lines <<n-gram, score>>.
\*   sentence 1: "3 4 3 : 4", "4 : 2", "4 4 : 2", "3 1 : 1"
\*   sentence 2: "4 4 : 2", "4 : 2", "3 : 1"
\*   any further sentence: "3 : 1"
NgramFile(sid) ==
    CASE sid = 1 -> << <<(<<3, 4, 3>>), 4>>, <<(<<4>>), 2>>, <<(<<4, 4>>), 2>>, <<(<<3, GO_ID>>), 1>> >>
      [] sid = 2 -> << <<(<<4, 4>>), 2>>, <<(<<4>>), 2>>, <<(<<3>>), 1>> >>
      [] OTHER   -> << <<(<<3>>), 1>> >>

\* discount_factor: -1.0 (the default, no discounting) or 0.5
NGCConfs == [path : {"ngrams"}, order : {0, 1, 2}, discount_factor : {-DiscOne, DiscOne \div 2}]

NGCConstruct(c) ==
    [max_history_len |-> 0, ngrams |-> <<>>, cur_history |-> 0, discounts |-> 0]

\* _load_posteriors: the loop over the lines of the file
RECURSIVE NGCLoadLines(_, _, _)
NGCLoadLines(lines, order, acc) ==
    IF lines = <<>> THEN acc
    ELSE LET words == lines[1][1]
             score == lines[1][2] * DiscOne
             hist == SubSeq(words, 1, Len(words) - 1)
             last_word == words[Len(words)]
             p == IF TrieHas(acc.ngrams, hist) THEN acc.ngrams[hist] ELSE <<>>
         IN  IF (order > 0 /\ Len(words) # order) \/ last_word = GO_ID
             THEN NGCLoadLines(Tail(lines), order, acc)
             ELSE NGCLoadLines(Tail(lines), order,
                    [max_history_len |-> Max(acc.max_history_len, Len(hist)),
                     ngrams |-> TrieAdd(acc.ngrams, hist, DictSet(p, last_word, score))])

NGCLoadPosteriors(c, sid) ==
    NGCLoadLines(NgramFile(sid), c.order, [max_history_len |-> 0, ngrams |-> <<>>])

\* initialize; the history list and the discount trie are new objects
NGCInitFields(c, slf, sid, list, trie) ==
    LET l == NGCLoadPosteriors(c, sid)
    IN  [max_history_len |-> l.max_history_len, ngrams |-> l.ngrams,
         cur_history |-> list, discounts |-> trie]

\* predict_next: what the entry (context, w) of the trie adds to posterior[w]
NGCContribution(c, slf, disc, context, w) ==
    IF ~TrieHas(slf.ngrams, context) \/ w \notin DOMAIN slf.ngrams[context] THEN 0
    ELSE LET score == slf.ngrams[context][w]
         IN  IF c.discount_factor >= 0 /\ TrieHas(disc, context)
             THEN FixMul(DictGet(disc[context], w, DiscOne), score)
             ELSE score

\* NgramCountPredictor.predict_next had it overwritten posterior[w] with the
\* score of each matching suffix in turn, the longest one last
NGCPosteriorOverwrite(c, slf, hist, disc) ==
    LET suffixes == {PyFrom(hist, i) : i \in 0..Len(hist)}
        found == {x \in suffixes : TrieHas(slf.ngrams, x)}
        keys == UNION {DOMAIN slf.ngrams[x] : x \in found}
        has(i, w) == /\ TrieHas(slf.ngrams, PyFrom(hist, i))
                     /\ w \in DOMAIN slf.ngrams[PyFrom(hist, i)]
        longest(w) == CHOOSE i \in 0..Len(hist) :
                         has(i, w) /\ \A j \in 0..(i - 1) : ~has(j, w)
    IN  [w \in keys |-> NGCContribution(c, slf, disc, PyFrom(hist, longest(w)), w)]

\* predict_next, given the contents of cur_history and of discounts
NGCPosterior(c, slf, hist, disc) ==
    LET suffixes == {PyFrom(hist, i) : i \in 0..Len(hist)}
        found == {x \in suffixes : TrieHas(slf.ngrams, x)}
        keys == UNION {DOMAIN slf.ngrams[x] : x \in found}
    IN  [w \in keys |->
            SumSeq([i \in 1..(Len(hist) + 1) |->
                       NGCContribution(c, slf, disc, PyFrom(hist, i - 1), w)])]

NGCGetUnkProbability(slf) == 0

\* consume: the list cur_history names after the append
NGCAppended(hist, word) == Append(hist, word)
NGCTruncates(slf, appended) == Len(appended) > slf.max_history_len
\* consume: the contents of cur_history afterwards
NGCNextHistory(slf, hist, word) ==
    IF NGCTruncates(slf, NGCAppended(hist, word))
    THEN PyLast(NGCAppended(hist, word), slf.max_history_len)
    ELSE NGCAppended(hist, word)

\* consume: the discount loop over i in range(len(cur_history)), on the new history
RECURSIVE NGCDiscountLoop(_, _, _, _, _)
NGCDiscountLoop(c, cur, word, i, disc) ==
    IF i >= Len(cur) THEN disc
    ELSE LET key == SubSeq(cur, i + 1, Len(cur) - 1)
             factors == IF TrieHas(disc, key)
                        THEN DictSet(disc[key], word,
                                     FixMul(DictGet(disc[key], word, DiscOne), c.discount_factor))
                        ELSE (word :> c.discount_factor)
         IN  NGCDiscountLoop(c, cur, word, i + 1, TrieAdd(disc, key, factors))

NGCNextDiscounts(c, slf, hist, disc, word) ==
    IF c.discount_factor >= 0
    THEN NGCDiscountLoop(c, NGCNextHistory(slf, hist, word), word, 0, disc)
    ELSE disc

NGCGetState(slf) == <<slf.cur_history, slf.discounts>>
NGCSetState(slf, state) == [slf EXCEPT !.cur_history = state[1], !.discounts = state[2]]

\* is_equal on the histories of the two states
\* NgramCountPredictor.is_equal had it no test of the discount factor
NGCIsEqualAnyDiscount(c, slf, hist1, hist2) ==
    IF hist1 = hist2 THEN TRUE
    ELSE LET hist_long == IF Len(hist1) > Len(hist2) THEN hist1 ELSE hist2
             hist_short == IF Len(hist1) > Len(hist2) THEN hist2 ELSE hist1
             min_len == Len(hist_short)
         IN  /\ \A n \in 1..min_len :
                    PyLast(hist1, n) # PyLast(hist2, n)
                        => ~(TrieHas(slf.ngrams, PyLast(hist1, n))
                                \/ TrieHas(slf.ngrams, PyLast(hist2, n)))
             /\ \A n \in (min_len + 1)..Len(hist_long) :
                    ~TrieHas(slf.ngrams, PyLast(hist_long, n))

NGCIsEqual(c, slf, hist1, hist2) ==
    IF c.discount_factor >= 0 THEN FALSE
    ELSE IF hist1 = hist2 THEN TRUE
    ELSE LET hist_long == IF Len(hist1) > Len(hist2) THEN hist1 ELSE hist2
             hist_short == IF Len(hist1) > Len(hist2) THEN hist2 ELSE hist1
             min_len == Len(hist_short)
         IN  /\ \A n \in 1..min_len :
                    PyLast(hist1, n) # PyLast(hist2, n)
                        => ~(TrieHas(slf.ngrams, PyLast(hist1, n))
                                \/ TrieHas(slf.ngrams, PyLast(hist2, n)))
             /\ \A n \in (min_len + 1)..Len(hist_long) :
                    ~TrieHas(slf.ngrams, PyLast(hist_long, n))

---------------------------------------------------------------------------
\* UnkCountPredictor

\* The source sentences as token ids (7 is beyond the source vocabulary).
SrcSentence(sid) ==
    CASE sid = 1 -> <<3, 4>>
      [] sid = 2 -> <<UNK_ID, 7, 3>>
      [] OTHER   -> <<UNK_ID>>

\* Rates are given in halves: <<1, 3>> is lambdas = [0.5, 1.5].
UNKConfs == [src_vocab_size : {4}, lambdas : {<<1, 3>>, <<4>>, <<2, 5>>}]

UNKConstruct(c) ==
    [l |-> c.lambdas[1], n_consumed |-> 0, n_unk |-> 0, unk_prob |-> 0,
     max_prob_idx |-> 0, max_prob |-> 0, consumed_prob |-> 0]

\* Poisson masses are integers in units of exp(-l) / (2^PoisBits * PoisBits!)
PoisBits == MaxConsumed + 3
RECURSIVE FallingFact(_, _)
FallingFact(n, k) == IF n <= k THEN 1 ELSE n * FallingFact(n - 1, k)

\* _get_poisson_prob: exp of n*log(l) - l - sum(log(i+1) for i < n)
UNKGetPoissonProb(l, n) == Pow(l, n) * Pow(2, PoisBits - n) * FallingFact(PoisBits, n)

\* UnkCountPredictor.initialize had it kept the first rate
UNKInitFieldsFirstRate(c, slf, sid) ==
    LET l == c.lambdas[1]
        idx == l \div 2
        floor_prob == UNKGetPoissonProb(l, idx)
        ceil_prob == UNKGetPoissonProb(l, idx + 1)
        max_prob == IF ceil_prob > floor_prob THEN ceil_prob ELSE floor_prob
    IN  [l |-> l, n_consumed |-> 0, n_unk |-> 0,
         unk_prob |-> UNKGetPoissonProb(l, 1),
         max_prob_idx |-> IF ceil_prob > floor_prob THEN idx + 1 ELSE idx,
         max_prob |-> max_prob,
         consumed_prob |-> max_prob]

UNKInitFields(c, slf, sid) ==
    LET src == SrcSentence(sid)
        src_n_unk == Cardinality({i \in 1..Len(src) :
                                     src[i] = UNK_ID \/ src[i] > c.src_vocab_size})
        l == c.lambdas[Min(Len(c.lambdas) - 1, src_n_unk) + 1]
        idx == l \div 2
        floor_prob == UNKGetPoissonProb(l, idx)
        ceil_prob == UNKGetPoissonProb(l, idx + 1)
        max_prob == IF ceil_prob > floor_prob THEN ceil_prob ELSE floor_prob
    IN  [l |-> l, n_consumed |-> 0, n_unk |-> 0,
         unk_prob |-> UNKGetPoissonProb(l, 1),
         max_prob_idx |-> IF ceil_prob > floor_prob THEN idx + 1 ELSE idx,
         max_prob |-> max_prob,
         consumed_prob |-> max_prob]

\* A log-probability that carries the factor exp(-l), and a difference of two.
PoisAbs(w) == <<"abs">> \o Frac(w, Pow(2, PoisBits) * FallingFact(PoisBits, 0))
PoisRel(w, v) == <<"rel">> \o Frac(w, v)

\* UnkCountPredictor.predict_next had it compared with n_unk <= max_prob_idx
UNKPosteriorInclusive(slf) ==
    IF slf.n_consumed = 0 THEN (EOS_ID :> PoisAbs(slf.unk_prob))
    ELSE IF slf.n_unk <= slf.max_prob_idx
    THEN (EOS_ID :> PoisRel(slf.unk_prob, slf.max_prob))
    ELSE (UNK_ID :> PoisRel(slf.unk_prob, slf.consumed_prob))

UNKPosterior(slf) ==
    IF slf.n_consumed = 0 THEN (EOS_ID :> PoisAbs(slf.unk_prob))
    ELSE IF slf.n_unk < slf.max_prob_idx
    THEN (EOS_ID :> PoisRel(slf.unk_prob, slf.max_prob))
    ELSE (UNK_ID :> PoisRel(slf.unk_prob, slf.consumed_prob))

UNKGetUnkProbability(slf) ==
    IF slf.n_consumed = 0 THEN PoisAbs(slf.max_prob) ELSE PoisRel(1, 1)

\* UnkCountPredictor.consume had it left consumed_prob as initialize set it
UNKConsumeStaleCheckpoint(slf, word) ==
    LET s1 == [slf EXCEPT !.n_consumed = @ + 1]
    IN  IF word = UNK_ID
        THEN [s1 EXCEPT !.n_unk = @ + 1,
                        !.unk_prob = UNKGetPoissonProb(slf.l, slf.n_unk + 2)]
        ELSE s1

UNKConsume(slf, word) ==
    LET s1 == [slf EXCEPT !.n_consumed = @ + 1]
    IN  IF word = UNK_ID
        THEN [s1 EXCEPT !.consumed_prob = IF slf.n_unk >= slf.max_prob_idx
                                           THEN slf.unk_prob ELSE @,
                        !.n_unk = @ + 1,
                        !.unk_prob = UNKGetPoissonProb(slf.l, slf.n_unk + 2)]
        ELSE s1

UNKGetState(slf) == <<slf.n_unk, slf.n_consumed, slf.unk_prob, slf.consumed_prob>>
UNKSetState(slf, state) ==
    [slf EXCEPT !.n_unk = state[1], !.n_consumed = state[2],
                !.unk_prob = state[3], !.consumed_prob = state[4]]
UNKIsEqual(state1, state2) == state1 = state2

---------------------------------------------------------------------------
\* NgramizePredictor, wrapping a memoryless predictor with array posteriors

FracAdd(a, b) == Frac(a[1] * b[2] + b[1] * a[2], a[2] * b[2])
FracMul(a, b) == Frac(a[1] * b[1], a[2] * b[2])
FracLess(a, b) == a[1] * b[2] < b[1] * a[2]

RECURSIVE FracSum(_)
FracSum(s) == IF s = <<>> THEN NEG_INF ELSE FracAdd(s[1], FracSum(Tail(s)))
RECURSIVE FracProd(_)
FracProd(s) == IF s = <<>> THEN LogOne ELSE FracMul(s[1], FracProd(Tail(s)))

\* The slave: at step t of sentence sid it returns one of two distributions
\* over the vocabulary, whatever was consumed; it prefers EOS from step
\* SlaveStop(sid) on.  Its unknown-word score is NEG_INF.
SlaveStop(sid) == IF sid = 1 THEN 1 ELSE NumSentences + MaxConsumed + 2
SlavePredictNext(sid, t) ==
    IF t < SlaveStop(sid)
    THEN (UNK_ID :> <<1, 8>>) @@ (GO_ID :> NEG_INF) @@ (EOS_ID :> <<1, 8>>)
            @@ (3 :> <<1, 2>>) @@ (4 :> <<1, 4>>)
    ELSE (UNK_ID :> <<1, 8>>) @@ (GO_ID :> NEG_INF) @@ (EOS_ID :> <<1, 2>>)
            @@ (3 :> <<1, 4>>) @@ (4 :> <<1, 8>>)
SlaveGetUnkProbability(sid, t) == NEG_INF

\* utils.argmax: the first index of the largest entry
ArgMax(posterior) ==
    CHOOSE w \in DOMAIN posterior :
        /\ \A v \in DOMAIN posterior : ~FracLess(posterior[w], posterior[v])
        /\ \A v \in DOMAIN posterior : v < w => FracLess(posterior[v], posterior[w])

\* utils.common_get on an array
CommonGet(posterior, word, default) ==
    IF word \in DOMAIN posterior THEN posterior[word] ELSE default

NGZConfs ==
    [orders : {<<1, 1>>, <<1, 2>>, <<2, 3>>}, max_len_factor : {1}]

NGZConstruct(c) ==
    [slave_predictor |-> [n_consumed |-> 0, consumed |-> <<>>, n_calls |-> 0],
     max_history_length |-> c.orders[2] - 1,
     min_order |-> Max(1, c.orders[1]),
     max_len_factor |-> c.max_len_factor,
     scores |-> <<>>, unk_scores |-> <<>>,
     history |-> 0, cur_unk_score |-> NEG_INF]

\* initialize: the greedy pass, while trg_word != EOS_ID and l <= max_len
RECURSIVE NGZGreedy(_, _, _, _, _)
NGZGreedy(sid, trg_word, l, max_len, acc) ==
    IF trg_word = EOS_ID \/ l > max_len THEN acc
    ELSE LET posterior == SlavePredictNext(sid, l)
         IN  NGZGreedy(sid, ArgMax(posterior), l + 1, max_len,
                [scores |-> Append(acc.scores, posterior),
                 unk_scores |-> Append(acc.unk_scores, SlaveGetUnkProbability(sid, l)),
                 consumed |-> Append(acc.consumed, UNK_ID)])

\* NgramizePredictor.initialize had it consumed the selected token on the slave
NGZInitFieldsConsumesSelected(slf, sid, list) ==
    LET max_len == slf.max_len_factor * Len(SrcSentence(sid))
        g == NGZGreedy(sid, -1, 0, max_len,
                       [scores |-> <<>>, unk_scores |-> <<>>, consumed |-> <<>>])
    IN  [slf EXCEPT !.slave_predictor = [n_consumed |-> Len(g.consumed),
                                         consumed |-> [i \in 1..Len(g.scores) |->
                                                          ArgMax(g.scores[i])],
                                         n_calls |-> 1 + 3 * Len(g.consumed)],
                    !.scores = g.scores, !.unk_scores = g.unk_scores,
                    !.history = list, !.cur_unk_score = NEG_INF]

\* The slave's record: the words its consume was called with, and the number
\* of calls it received (initialize, then predict_next, get_unk_probability
\* and consume in each pass of the loop).
NGZInitFields(slf, sid, list) ==
    LET max_len == slf.max_len_factor * Len(SrcSentence(sid))
        g == NGZGreedy(sid, -1, 0, max_len,
                       [scores |-> <<>>, unk_scores |-> <<>>, consumed |-> <<>>])
    IN  [slf EXCEPT !.slave_predictor = [n_consumed |-> Len(g.consumed),
                                         consumed |-> g.consumed,
                                         n_calls |-> 1 + 3 * Len(g.consumed)],
                    !.scores = g.scores, !.unk_scores = g.unk_scores,
                    !.history = list, !.cur_unk_score = NEG_INF]

\* predict_next: acc after the words history[0..order-1] were matched from pos on
NGZAcc(slf, hist, pos, order) ==
    FracProd([i \in 1..order |->
                CommonGet(slf.scores[pos + i], hist[i], slf.unk_scores[pos + i])])

\* predict_next: the positions that add a row to this_scores[order]
NGZRows(slf, order) == Len(slf.scores) - order

\* logsumexp(np.vstack(this_scores[order]), axis=0)
NGZCombinedScores(slf, hist, order) ==
    [w \in Vocab |->
        FracSum([p \in 1..NGZRows(slf, order) |->
                    FracMul(NGZAcc(slf, hist, p - 1, order), slf.scores[p + order][w])])]

\* utils.log_sum(this_unk_scores[order])
NGZCombinedUnk(slf, hist, order) ==
    FracSum([p \in 1..NGZRows(slf, order) |->
                FracMul(NGZAcc(slf, hist, p - 1, order), slf.unk_scores[p + order])])

\* NgramizePredictor.predict_next had it required order + 1 > self.min_order
NGZQualifyingAbove(slf, hist) ==
    {order \in 0..Len(hist) : NGZRows(slf, order) > 0 /\ order + 1 > slf.min_order}

\* the orders whose rows are combined
NGZQualifying(slf, hist) ==
    {order \in 0..Len(hist) : NGZRows(slf, order) > 0 /\ order + 1 >= slf.min_order}

\* sum(xs) of the combined log scores: the product of the probabilities
NGZPosterior(slf, hist) ==
    IF NGZQualifying(slf, hist) = {} THEN <<>>
    ELSE [w \in Vocab |->
            FracProd([k \in 1..(Len(hist) + 1) |->
                        IF (k - 1) \in NGZQualifying(slf, hist)
                        THEN NGZCombinedScores(slf, hist, k - 1)[w] ELSE LogOne])]

\* predict_next: the value it stores in cur_unk_score
NGZCurUnkScore(slf, hist) ==
    IF NGZQualifying(slf, hist) = {} THEN LogOne
    ELSE FracProd([k \in 1..(Len(hist) + 1) |->
                     IF (k - 1) \in NGZQualifying(slf, hist)
                     THEN NGZCombinedUnk(slf, hist, k - 1) ELSE LogOne])

NGZGetUnkProbability(slf) == slf.cur_unk_score

\* NgramizePredictor.consume had it kept max_order tokens
NGZNextHistoryOneMore(slf, hist, word) ==
    IF slf.max_history_length > 0
    THEN PyLast(Append(hist, word), slf.max_history_length + 1)
    ELSE hist

\* consume: the contents of the list history names afterwards
NGZNextHistory(slf, hist, word) ==
    IF slf.max_history_length > 0
    THEN PyLast(Append(hist, word), slf.max_history_length)
    ELSE hist

NGZGetState(slf) == <<slf.history, slf.cur_unk_score>>
NGZSetState(slf, state) == [slf EXCEPT !.history = state[1], !.cur_unk_score = state[2]]
NGZIsEqual(state1, state2) == state1 = state2

---------------------------------------------------------------------------
\* The instance: one predictor of any class, with any of its configurations

Kinds == {"NB", "WC", "WNT", "EXT", "NGC", "UNK", "NGZ"}

Confs(k) ==
    CASE k = "NB"  -> NBConfs
      [] k = "WC"  -> WCConfs
      [] k = "WNT" -> WNTConfs
      [] k = "EXT" -> EXTConfs
      [] k = "NGC" -> NGCConfs
      [] k = "UNK" -> UNKConfs
      [] k = "NGZ" -> NGZConfs

Construct(k, c) ==
    CASE k = "NB"  -> NBConstruct(c)
      [] k = "WC"  -> WCConstruct(c)
      [] k = "WNT" -> WNTConstruct(c)
      [] k = "EXT" -> EXTConstruct(c)
      [] k = "NGC" -> NGCConstruct(c)
      [] k = "UNK" -> UNKConstruct(c)
      [] k = "NGZ" -> NGZConstruct(c)

ConstructRaises(k, c) == k = "NB" /\ NBConstruct(c).raised # ""

\* get_state
GetStateOf(k, slf) ==
    CASE k = "NB"  -> NBGetState(slf)
      [] k = "WC"  -> WCGetState(slf)
      [] k = "WNT" -> WNTGetState(slf)
      [] k = "EXT" -> EXTGetState(slf)
      [] k = "NGC" -> NGCGetState(slf)
      [] k = "UNK" -> UNKGetState(slf)
      [] k = "NGZ" -> NGZGetState(slf)

\* set_state
SetStateOf(k, slf, state) ==
    CASE k = "NB"  -> NBSetState(slf, state)
      [] k = "WC"  -> WCSetState(slf, state)
      [] k = "WNT" -> WNTSetState(slf, state)
      [] k = "EXT" -> EXTSetState(slf, state)
      [] k = "NGC" -> NGCSetState(slf, state)
      [] k = "UNK" -> UNKSetState(slf, state)
      [] k = "NGZ" -> NGZSetState(slf, state)

\* the objects a state tuple refers to
RefsOf(k, state) ==
    CASE k = "NB"  -> {state[2]}
      [] k = "NGC" -> {state[1], state[2]}
      [] k = "NGZ" -> {state[1]}
      [] OTHER     -> {}

\* a state tuple with the objects' contents in place of the objects
DerefOf(k, state, h) ==
    CASE k = "NB"  -> <<state[1], h[state[2]]>>
      [] k = "NGC" -> <<h[state[1]], h[state[2]]>>
      [] k = "NGZ" -> <<h[state[1]], state[2]>>
      [] OTHER     -> state

Live(k, slf, sn) ==
    (RefsOf(k, GetStateOf(k, slf)) \cup (IF sn = None THEN {} ELSE RefsOf(k, sn[1])))
        \cap Addr

\* what predict_next returns in this state
PosteriorOf(k, c, slf, h) ==
    CASE k = "NB"  -> NBPosterior(c, slf, h[slf.prev_eos_probs])
      [] k = "WC"  -> WCPosterior(slf)
      [] k = "WNT" -> WNTPosterior(slf)
      [] k = "EXT" -> EXTPosterior(slf)
      [] k = "NGC" -> NGCPosterior(c, slf, h[slf.cur_history], h[slf.discounts])
      [] k = "UNK" -> UNKPosterior(slf)
      [] k = "NGZ" -> NGZPosterior(slf, h[slf.history])

\* what get_unk_probability(posterior) returns in this state
UnkProbabilityOf(k, c, slf, posterior) ==
    CASE k = "NB"  -> NBGetUnkProbability(c, slf, posterior)
      [] k = "WC"  -> WCGetUnkProbability(slf)
      [] k = "WNT" -> WNTGetUnkProbability(slf)
      [] k = "EXT" -> EXTGetUnkProbability(slf)
      [] k = "NGC" -> NGCGetUnkProbability(slf)
      [] k = "UNK" -> UNKGetUnkProbability(slf)
      [] k = "NGZ" -> NGZGetUnkProbability(slf)

\* what the decoder reads in this state: predict_next(), then
\* get_unk_probability of that posterior
ViewOf(k, c, slf, h) ==
    LET posterior == PosteriorOf(k, c, slf, h)
    IN  <<posterior,
          IF k = "NGZ" THEN NGZCurUnkScore(slf, h[slf.history])
          ELSE UnkProbabilityOf(k, c, slf, posterior)>>

\* is_equal, on two state tuples given with their lists' contents
IsEqualOf(k, c, slf, state1, state2) ==
    CASE k = "NB"  -> NBIsEqual(state1, state2)
      [] k = "WC"  -> WCIsEqual(state1, state2)
      [] k = "WNT" -> WNTIsEqual(state1, state2)
      [] k = "EXT" -> EXTIsEqual(state1, state2)
      [] k = "NGC" -> NGCIsEqual(c, slf, state1[1], state2[1])
      [] k = "UNK" -> UNKIsEqual(state1, state2)
      [] k = "NGZ" -> NGZIsEqual(state1, state2)

StateValue == DerefOf(kind, GetStateOf(kind, self), heap)
View == ViewOf(kind, conf, self, heap)

---------------------------------------------------------------------------
\* Initial state: the instance as its constructor left it

Init ==
    /\ kind \in Kinds
    /\ conf \in Confs(kind)
    /\ self = Construct(kind, conf)
    /\ pc = IF ConstructRaises(kind, conf) THEN "raised" ELSE "constructed"
    /\ sen = 0
    /\ heap = [a \in Addr |-> Empty]
    /\ snap = None /\ snapVal = None /\ snapView = None
    /\ op = "__init__" /\ arg = -1 /\ ret = None
    /\ steps = 0
    /\ FAIRSEQ_INITIALIZED = FALSE /\ imported = <<>> /\ constructions = <<>>

Callable == pc \in {"constructed", "initialized"}
Ready == pc = "initialized"

\* An operation of a predictor of length.py; it does not touch pytorch_fairseq.py.
Called(o, a, r) == op' = o /\ arg' = a /\ ret' = r /\ UNCHANGED fairseqVars

\* initialize starts a sentence: the snapshots of the last one are dropped
NewSentence(sid) ==
    /\ sen' = sid
    /\ pc' = "initialized"
    /\ snap' = None /\ snapVal' = None /\ snapView' = None
    /\ steps' = 0
    /\ Called("initialize", sid, None)

KeepSentence == UNCHANGED <<kind, conf, pc, sen, snap, snapVal, snapView>>

---------------------------------------------------------------------------
\* NBLengthPredictor: operations

NBInitialize(sid) ==
    /\ kind = "NB" /\ Callable
    /\ UNCHANGED <<kind, conf>>
    /\ IF NBInitRaises(self, sid)
       THEN \* np.dot raises ValueError
            /\ pc' = "raised"
            /\ Called("initialize", sid, None)
            /\ UNCHANGED <<sen, self, heap, snap, snapVal, snapView, steps>>
       ELSE /\ self' = NBInitFields(conf, self, sid, Fresh({}))
            /\ heap' = Gc([heap EXCEPT ![Fresh({})] = <<>>], {Fresh({})})
            /\ NewSentence(sid)

NBPredictNext ==
    /\ kind = "NB" /\ Ready
    /\ Len(heap[self.prev_eos_probs]) < MaxPrev
    /\ LET prev == heap[self.prev_eos_probs]
       IN  /\ Called("predict_next", -1, Some(NBPosterior(conf, self, prev)))
           /\ heap' = IF self.n_consumed = 0 THEN heap
                      ELSE [heap EXCEPT ![self.prev_eos_probs] =
                                            NBGetEosProbAppends(conf, self, prev)]
    /\ UNCHANGED <<self, steps>>
    /\ KeepSentence

NBConsume(word) ==
    /\ kind = "NB" /\ Ready
    /\ self.n_consumed < MaxConsumed
    /\ self' = [self EXCEPT !.n_consumed = @ + 1]
    /\ Called("consume", word, None)
    /\ UNCHANGED <<heap, steps>>
    /\ KeepSentence

---------------------------------------------------------------------------
\* WordCountPredictor: operations

WCInitialize(sid) ==
    /\ kind = "WC" /\ Callable
    /\ UNCHANGED <<kind, conf, self, heap>>
    /\ NewSentence(sid)

WCPredictNext ==
    /\ kind = "WC" /\ Ready
    /\ Called("predict_next", -1, Some(WCPosterior(self)))
    /\ UNCHANGED <<self, heap, steps>>
    /\ KeepSentence

WCConsume(word) ==
    /\ kind = "WC" /\ Ready
    /\ Called("consume", word, None)
    /\ UNCHANGED <<self, heap, steps>>
    /\ KeepSentence

---------------------------------------------------------------------------
\* WeightNonTerminalPredictor: operations

WNTInitialize(sid) ==
    /\ kind = "WNT" /\ Callable
    /\ UNCHANGED <<kind, conf, self, heap>>
    /\ NewSentence(sid)

\* The dict the slave returns is the slave's own self.posterior: the products
\* are stored in it.
WNTPredictNext ==
    /\ kind = "WNT" /\ Ready
    /\ \A t \in DOMAIN self.slave_predictor.posterior :
            /\ self.slave_predictor.posterior[t] <= MaxScore
            /\ self.slave_predictor.posterior[t] >= -MaxScore
    /\ self' = [self EXCEPT !.slave_predictor.posterior = WNTPosterior(self)]
    /\ Called("predict_next", -1, Some(WNTPosterior(self)))
    /\ UNCHANGED <<heap, steps>>
    /\ KeepSentence

WNTConsume(word) ==
    /\ kind = "WNT" /\ Ready
    /\ Called("consume", word, None)
    /\ UNCHANGED <<self, heap, steps>>
    /\ KeepSentence

---------------------------------------------------------------------------
\* ExternalLengthPredictor: operations

EXTInitialize(sid) ==
    /\ kind = "EXT" /\ Callable
    /\ self' = EXTInitFields(self, sid)
    /\ UNCHANGED <<kind, conf, heap>>
    /\ NewSentence(sid)

EXTPredictNext ==
    /\ kind = "EXT" /\ Ready
    /\ Called("predict_next", -1, Some(EXTPosterior(self)))
    /\ UNCHANGED <<self, heap, steps>>
    /\ KeepSentence

EXTConsume(word) ==
    /\ kind = "EXT" /\ Ready
    /\ self.n_consumed < MaxConsumed
    /\ self' = [self EXCEPT !.n_consumed = @ + 1]
    /\ Called("consume", word, None)
    /\ UNCHANGED <<heap, steps>>
    /\ KeepSentence

---------------------------------------------------------------------------
\* NgramCountPredictor: operations

NGCInitialize(sid) ==
    /\ kind = "NGC" /\ Callable
    /\ self' = NGCInitFields(conf, self, sid, 1, 2)
    /\ heap' = Gc([heap EXCEPT ![1] = <<GO_ID>>, ![2] = <<>>], {1, 2})
    /\ UNCHANGED <<kind, conf>>
    /\ NewSentence(sid)

NGCPredictNext ==
    /\ kind = "NGC" /\ Ready
    /\ Called("predict_next", -1,
              Some(NGCPosterior(conf, self, heap[self.cur_history], heap[self.discounts])))
    /\ UNCHANGED <<self, heap, steps>>
    /\ KeepSentence

\* cur_history.append(word) changes the list in place; the slice is a new list;
\* the discount trie is changed in place.
NGCConsume(word) ==
    /\ kind = "NGC" /\ Ready
    /\ steps < MaxConsumed
    /\ LET hist == heap[self.cur_history]
           disc == heap[self.discounts]
           appended == NGCAppended(hist, word)
           target == IF NGCTruncates(self, appended)
                     THEN Fresh(Live(kind, self, snap)) ELSE self.cur_history
           self2 == [self EXCEPT !.cur_history = target]
           h1 == [heap EXCEPT ![self.cur_history] = appended]
           h2 == [h1 EXCEPT ![target] = NGCNextHistory(self, hist, word)]
           h3 == [h2 EXCEPT ![self.discounts] =
                                NGCNextDiscounts(conf, self, hist, disc, word)]
       IN  /\ self' = self2
           /\ heap' = Gc(h3, Live(kind, self2, snap))
    /\ steps' = steps + 1
    /\ Called("consume", word, None)
    /\ KeepSentence

---------------------------------------------------------------------------
\* UnkCountPredictor: operations

UNKInitialize(sid) ==
    /\ kind = "UNK" /\ Callable
    /\ self' = UNKInitFields(conf, self, sid)
    /\ UNCHANGED <<kind, conf, heap>>
    /\ NewSentence(sid)

UNKPredictNext ==
    /\ kind = "UNK" /\ Ready
    /\ Called("predict_next", -1, Some(UNKPosterior(self)))
    /\ UNCHANGED <<self, heap, steps>>
    /\ KeepSentence

UNKConsumeWord(word) ==
    /\ kind = "UNK" /\ Ready
    /\ self.n_consumed < MaxConsumed
    /\ self' = UNKConsume(self, word)
    /\ Called("consume", word, None)
    /\ UNCHANGED <<heap, steps>>
    /\ KeepSentence

---------------------------------------------------------------------------
\* NgramizePredictor: operations

NGZInitialize(sid) ==
    /\ kind = "NGZ" /\ Callable
    /\ self' = NGZInitFields(self, sid, 1)
    /\ heap' = Gc([heap EXCEPT ![1] = <<>>], {1})
    /\ UNCHANGED <<kind, conf>>
    /\ NewSentence(sid)

NGZPredictNext ==
    /\ kind = "NGZ" /\ Ready
    /\ self' = [self EXCEPT !.cur_unk_score = NGZCurUnkScore(self, heap[self.history])]
    /\ Called("predict_next", -1, Some(NGZPosterior(self, heap[self.history])))
    /\ UNCHANGED <<heap, steps>>
    /\ KeepSentence

\* history.append(word) changes the list in place; the slice is a new list.
NGZConsume(word) ==
    /\ kind = "NGZ" /\ Ready
    /\ steps < MaxConsumed
    /\ IF self.max_history_length > 0
       THEN LET hist == heap[self.history]
                target == Fresh(Live(kind, self, snap))
                self2 == [self EXCEPT !.history = target]
                h1 == [heap EXCEPT ![self.history] = Append(hist, word)]
                h2 == [h1 EXCEPT ![target] = NGZNextHistory(self, hist, word)]
            IN  /\ self' = self2
                /\ heap' = Gc(h2, Live(kind, self2, snap))
       ELSE UNCHANGED <<self, heap>>
    /\ steps' = steps + 1
    /\ Called("consume", word, None)
    /\ KeepSentence

---------------------------------------------------------------------------
\* Operations of every class

\* get_unk_probability(posterior), on the posterior predict_next just returned
GetUnkProbability ==
    /\ Ready /\ op = "predict_next"
    /\ Called("get_unk_probability", -1,
              Some(UnkProbabilityOf(kind, conf, self, ret[1])))
    /\ UNCHANGED <<self, heap, steps>>
    /\ KeepSentence

\* get_state returns the fields themselves, not copies
GetState ==
    /\ Ready
    /\ snap' = Some(GetStateOf(kind, self))
    /\ snapVal' = Some(StateValue)
    /\ snapView' = Some(View)
    /\ Called("get_state", -1, Some(GetStateOf(kind, self)))
    /\ UNCHANGED <<kind, conf, pc, sen, self, heap, steps>>

SetState ==
    /\ Ready /\ snap # None
    /\ self' = SetStateOf(kind, self, snap[1])
    /\ heap' = Gc(heap, Live(kind, SetStateOf(kind, self, snap[1]), snap))
    /\ Called("set_state", -1, None)
    /\ UNCHANGED steps
    /\ KeepSentence

Initialize(sid) ==
    \/ NBInitialize(sid) \/ WCInitialize(sid) \/ WNTInitialize(sid)
    \/ EXTInitialize(sid) \/ NGCInitialize(sid) \/ UNKInitialize(sid)
    \/ NGZInitialize(sid)

PredictNext ==
    \/ NBPredictNext \/ WCPredictNext \/ WNTPredictNext \/ EXTPredictNext
    \/ NGCPredictNext \/ UNKPredictNext \/ NGZPredictNext

Consume(word) ==
    \/ NBConsume(word) \/ WCConsume(word) \/ WNTConsume(word)
    \/ EXTConsume(word) \/ NGCConsume(word) \/ UNKConsumeWord(word)
    \/ NGZConsume(word)

Next ==
    \/ \E sid \in Sentences : Initialize(sid)
    \/ PredictNext
    \/ GetUnkProbability
    \/ \E word \in Words : Consume(word)
    \/ GetState
    \/ SetState

Spec == Init /\ [][Next]_vars

---------------------------------------------------------------------------
\* pytorch_fairseq.py: the module global and the constructor of FairseqPredictor

\* user_dir arguments; "" stands for the values Python takes as false
UserDirs == {"", "user_a", "user_b"}

\* _initialize_fairseq had it no test of FAIRSEQ_INITIALIZED
InitializeFairseqUnguarded(flag, imp, user_dir, returns) ==
    IF user_dir # ""
    THEN [flag |-> flag \/ returns,
          imported |-> Append(imp, [user_dir |-> user_dir, returned |-> returns]),
          raised |-> ~returns]
    ELSE [flag |-> TRUE, imported |-> imp, raised |-> FALSE]

\* _initialize_fairseq(user_dir): the flag and the record of imports afterwards.
\* import_user_module belongs to the fairseq library: it returns, or it raises
\* (a user_dir that cannot be imported), and then the assignment of the flag
\* is not reached.
InitializeFairseq(flag, imp, user_dir, returns) ==
    IF ~flag
    THEN IF user_dir # ""
         THEN [flag |-> returns,
               imported |-> Append(imp, [user_dir |-> user_dir, returned |-> returns]),
               raised |-> ~returns]
         ELSE [flag |-> TRUE, imported |-> imp, raised |-> FALSE]
    ELSE [flag |-> flag, imported |-> imp, raised |-> FALSE]

\* The state of a process that has loaded the module and built no predictor
\* of length.py.
FairseqInit ==
    /\ FAIRSEQ_INITIALIZED = FALSE /\ imported = <<>> /\ constructions = <<>>
    /\ kind = "Fairseq" /\ conf = <<>> /\ pc = "module loaded" /\ sen = 0
    /\ self = <<>> /\ heap = <<>>
    /\ snap = None /\ snapVal = None /\ snapView = None
    /\ op = "import" /\ arg = -1 /\ ret = None
    /\ steps = 0

\* FairseqPredictor.__init__ returns an instance
FairseqConstruct(user_dir) ==
    /\ Len(constructions) < MaxConstructions
    /\ LET s == InitializeFairseq(FAIRSEQ_INITIALIZED, imported, user_dir, TRUE)
       IN  /\ FAIRSEQ_INITIALIZED' = s.flag
           /\ imported' = s.imported
    /\ constructions' = Append(constructions,
                               [user_dir |-> user_dir, outcome |-> "constructed"])
    /\ UNCHANGED vars

\* FairseqPredictor.__init__ is left by an exception of import_user_module
FairseqSetupRaises(user_dir) ==
    /\ Len(constructions) < MaxConstructions
    /\ LET s == InitializeFairseq(FAIRSEQ_INITIALIZED, imported, user_dir, FALSE)
       IN  /\ s.raised
           /\ FAIRSEQ_INITIALIZED' = s.flag
           /\ imported' = s.imported
    /\ constructions' = Append(constructions,
                               [user_dir |-> user_dir, outcome |-> "setup raised"])
    /\ UNCHANGED vars

\* FairseqPredictor.__init__ is left by an exception after _initialize_fairseq
\* has returned (the options, the task or the model files)
FairseqLoadRaises(user_dir) ==
    /\ Len(constructions) < MaxConstructions
    /\ LET s == InitializeFairseq(FAIRSEQ_INITIALIZED, imported, user_dir, TRUE)
       IN  /\ FAIRSEQ_INITIALIZED' = s.flag
           /\ imported' = s.imported
    /\ constructions' = Append(constructions,
                               [user_dir |-> user_dir, outcome |-> "load raised"])
    /\ UNCHANGED vars

FairseqNext ==
    \/ \E user_dir \in UserDirs : FairseqConstruct(user_dir)
    \/ \E user_dir \in UserDirs : FairseqSetupRaises(user_dir)
    \/ \E user_dir \in UserDirs : FairseqLoadRaises(user_dir)

FairseqSpec == FairseqInit /\ [][FairseqNext]_<<vars, fairseqVars>>

---------------------------------------------------------------------------
\* Claims

\* C1: for every stateful predictor, after set_state(s) predict_next and
\* get_unk_probability return what they would have returned when
\* s = get_state() was taken, whatever consume and predict_next calls were
\* made in between.
C1_SnapshotIsolation ==
    (kind \in {"NB", "EXT", "NGC", "UNK", "NGZ"} /\ op = "set_state")
    => View = snapView[1]

\* C2: predict_next leaves the value of get_state unchanged, and two
\* predict_next calls in a row return equal posteriors.
C2_PredictNextPure ==
    [][/\ op' = "predict_next" => StateValue' = StateValue
       /\ (op = "predict_next" /\ op' = "predict_next") => ret' = ret]_vars

\* The histories and posteriors of an NgramCountPredictor after consuming ws.
RECURSIVE NGCHistoryAfter(_, _, _)
NGCHistoryAfter(slf, hist, ws) ==
    IF ws = <<>> THEN hist
    ELSE NGCHistoryAfter(slf, NGCNextHistory(slf, hist, ws[1]), Tail(ws))

FutureWords == UNION {[1..n -> Words] : n \in 0..MaxFuture}

\* C3: without discounting, two states of one sentence that is_equal accepts
\* give the same posterior after every sequence of tokens consumed from both.
C3_IsEqualSound ==
    (/\ kind = "NGC" /\ Ready /\ conf.discount_factor < 0 /\ snapVal # None
     /\ NGCIsEqual(conf, self, snapVal[1][1], StateValue[1]))
    => \A ws \in FutureWords :
          NGCPosterior(conf, self, NGCHistoryAfter(self, snapVal[1][1], ws), <<>>)
            = NGCPosterior(conf, self, NGCHistoryAfter(self, StateValue[1], ws), <<>>)

\* C4 as stated: is_equal(s, s) is true for every predictor and every state s
\* reached by initialize and consume calls.
C4_IsEqualReflexive ==
    Ready => IsEqualOf(kind, conf, self, StateValue, StateValue)

Discounting == kind = "NGC" /\ conf.discount_factor >= 0

\* C4 as amended: is_equal(s, s) is true for every predictor and every
\* reachable state s, except for an NgramCountPredictor with discounting
\* enabled, whose is_equal is false for every state.
C4_IsEqualReflexiveUnlessDiscounting ==
    Ready => (IsEqualOf(kind, conf, self, StateValue, StateValue) <=> ~Discounting)

C4_Witness ==
    /\ kind = "NGC" /\ ~Discounting /\ op = "consume" /\ steps = 2
    /\ IsEqualOf(kind, conf, self, StateValue, StateValue)

\* C5: in proper-probability mode two states of one sentence with the same
\* consumed count hold the same list of prior point log-probs, and predict_next
\* gives the same result in both.
C5_CountDeterminesList ==
    (/\ kind = "NB" /\ Ready /\ ~conf.use_point_probs /\ snapVal # None
     /\ NBIsEqual(snapVal[1], StateValue))
    => /\ snapVal[1][2] = StateValue[2]
       /\ snapView[1][1] = View[1]

\* The instance a constructor call followed by initialize(sid) gives.
FreshSelf(k, c, sid) ==
    CASE k = "NB"  -> NBInitFields(c, NBConstruct(c), sid, 1)
      [] k = "WC"  -> WCConstruct(c)
      [] k = "WNT" -> WNTConstruct(c)
      [] k = "EXT" -> EXTInitFields(EXTConstruct(c), sid)
      [] k = "NGC" -> NGCInitFields(c, NGCConstruct(c), sid, 1, 2)
      [] k = "UNK" -> UNKInitFields(c, UNKConstruct(c), sid)
      [] k = "NGZ" -> NGZInitFields(NGZConstruct(c), sid, 1)
FreshHeap(k) ==
    [a \in Addr |-> IF k = "NGC" /\ a = 1 THEN <<GO_ID>> ELSE Empty]

\* C6: right after initialize, predict_next and get_unk_probability return
\* what they return on a new instance initialized for the same sentence,
\* whatever was called on the instance before.
C6_NoCrossSentenceState ==
    (Ready /\ op = "initialize")
    => View = ViewOf(kind, conf, FreshSelf(kind, conf, sen), FreshHeap(kind))

IsSuffix(context, hist) ==
    /\ Len(context) <= Len(hist)
    /\ SubSeq(hist, Len(hist) - Len(context) + 1, Len(hist)) = context

\* C7: with discounting, consume(word) in a state whose history ends with the
\* context of a trie entry (context, word) strictly decreases what that entry
\* adds to the posterior.
C7_ConsumeDiscountsEntry ==
    [][\A word \in Words :
        (Discounting /\ Ready /\ op' = "consume" /\ arg' = word)
        => \A context \in DOMAIN self.ngrams :
              (word \in DOMAIN self.ngrams[context]
                  /\ IsSuffix(context, heap[self.cur_history]))
              => NGCContribution(conf, self', heap'[self'.discounts], context, word)
                    < NGCContribution(conf, self, heap[self.discounts], context, word)]_vars

\* C8: every predict_next of the wrapper returns the slave's own scores, the
\* ids of the penalty set other than EOS and UNK multiplied once by
\* penalty_factor.
C8_PenaltyAppliedOnce ==
    (kind = "WNT" /\ op = "predict_next")
    => ret[1] = [t \in DOMAIN WCConstruct(conf.slave).posterior |->
                    IF t \in NonTerminals(conf) \ {EOS_ID, UNK_ID}
                    THEN WCConstruct(conf.slave).posterior[t] * conf.penalty_factor
                    ELSE WCConstruct(conf.slave).posterior[t]]

\* C9: a weight list of a length other than 10 or 12 gives no instance that a
\* sentence can be initialized with; lengths 10 and 12 are accepted, 10 with
\* both biases 0.
C9_BadWeightsAreFatal ==
    kind = "NB"
    => IF Len(conf.model_weights) \in {2 * NUM_FEATURES, 2 * NUM_FEATURES + 2}
       THEN /\ pc # "raised"
            /\ Len(conf.model_weights) = 2 * NUM_FEATURES
                  => (self.r_weights[NUM_FEATURES + 1] = 0
                        /\ self.p_weights[NUM_FEATURES + 1] = 0)
       ELSE pc # "initialized"

SingleWord == kind = "WC" /\ conf.word >= 0 /\ ~conf.nonterminal_penalty
WCConst == IF conf.negative_wc THEN -1 ELSE 1

\* C10 as stated: with a single word w, predict_next returns exactly
\* {EOS: 0, w: const} and get_unk_probability returns 0.
C10_SingleWordWithEos ==
    (SingleWord /\ op = "predict_next")
    => /\ ret[1] = (EOS_ID :> 0) @@ (conf.word :> WCConst)
       /\ WCGetUnkProbability(self) = 0

\* C10 as amended: with a single word w, predict_next returns in every state
\* the posterior with the one entry w -> const (EOS has no entry of its own
\* and is scored by the fallback), and get_unk_probability returns 0.
C10_SingleWordOnly ==
    SingleWord
    => /\ WCPosterior(self) = (conf.word :> WCConst)
       /\ WCGetUnkProbability(self) = 0
       /\ op = "predict_next" => ret[1] = (conf.word :> WCConst)
       /\ op = "get_unk_probability" => ret[1] = 0

C10_Witness ==
    /\ SingleWord /\ conf.negative_wc /\ sen = 2
    /\ op = "get_unk_probability" /\ ret = Some(0)
    /\ WCPosterior(self) = (4 :> -1)

CountAll == kind = "WC" /\ conf.word < 0 /\ ~conf.nonterminal_penalty

\* C11: in count-all mode get_unk_probability returns -1 with negative_wc and
\* +1 without, predict_next returns exactly {EOS: 0}, and is_equal is true for
\* every pair of states, after any sequence of calls.
C11_CountAllConstant ==
    CountAll
    => /\ WCGetUnkProbability(self) = WCConst
       /\ WCPosterior(self) = (EOS_ID :> 0)
       /\ op = "predict_next" => ret[1] = (EOS_ID :> 0)
       /\ op = "get_unk_probability" => ret[1] = WCConst
       /\ snapVal # None => WCIsEqual(snapVal[1], StateValue)
       /\ WCIsEqual(StateValue, StateValue)

C11_Witness ==
    /\ CountAll /\ ~conf.negative_wc /\ snap # None /\ sen = 2
    /\ op = "get_unk_probability" /\ ret = Some(1)

\* The largest tabulated length of the current sentence.
MaxTabulated == SetMax(DOMAIN ExternalLengths(sen))

C13_OnlyEos ==
    [][(kind = "NB" /\ op' = "predict_next")
       => /\ DOMAIN ret'[1] = {EOS_ID}
          /\ self.n_consumed = 0
                => /\ ret'[1][EOS_ID] = NEG_INF
                   /\ heap'[self'.prev_eos_probs] = heap[self.prev_eos_probs]]_vars

C13_Witness ==
    /\ kind = "NB" /\ ~conf.use_point_probs /\ op = "predict_next"
    /\ self.n_consumed = 0 /\ ret = Some((EOS_ID :> NEG_INF))
    /\ snapVal # None /\ snapVal[1][1] = 0 /\ heap[self.prev_eos_probs] = <<>>

\* C14 as stated: get_unk_probability of NBLengthPredictor returns
\* max_eos_prob in point-probability mode with no token consumed, and
\* ln(1 - exp(e)) in every other case, e being the EOS score of the posterior
\* passed in.
C14_UnkIsComplement ==
    [][(kind = "NB" /\ op' = "get_unk_probability")
       => ret'[1] = IF conf.use_point_probs /\ self.n_consumed = 0
                    THEN Frac(self.max_eos_prob, PmfScale(self))
                    ELSE Log1mExp(ret[1][EOS_ID])]_vars

\* C14 as amended: get_unk_probability returns max_eos_prob in point mode
\* with no token consumed, 0.0 in point mode with at least one token consumed
\* and in proper-probability mode with no token consumed, and ln(1 - exp(e))
\* in proper-probability mode with at least one token consumed.
C14_UnkByModeAndCount ==
    [][(kind = "NB" /\ op' = "get_unk_probability")
       => ret'[1] = IF conf.use_point_probs
                    THEN (IF self.n_consumed = 0
                          THEN Frac(self.max_eos_prob, PmfScale(self)) ELSE LogOne)
                    ELSE (IF self.n_consumed = 0
                          THEN LogOne ELSE Log1mExp(ret[1][EOS_ID]))]_vars

C14_Witness ==
    /\ kind = "NB" /\ conf.use_point_probs /\ op = "get_unk_probability"
    /\ self.n_consumed = 2 /\ ret = Some(LogOne)

\* The number of tokens of the current source sentence that are the unknown
\* id or lie beyond the source vocabulary.
SrcUnks ==
    SumSeq([i \in 1..Len(SrcSentence(sen)) |->
               IF SrcSentence(sen)[i] = UNK_ID \/ SrcSentence(sen)[i] > conf.src_vocab_size
               THEN 1 ELSE 0])

\* C15: initialize of UnkCountPredictor succeeds for every source sentence and
\* every non-empty rate list, selects the rate lambdas[min(k-1, c)] for a list
\* of k rates and c unknown or out-of-range source tokens, and resets the
\* consumed count and the unknown count to 0.
C15_RateClamped ==
    (kind = "UNK" /\ op = "initialize")
    => /\ pc = "initialized"
       /\ self.l = conf.lambdas[Min(Len(conf.lambdas) - 1, SrcUnks) + 1]
       /\ self.n_consumed = 0
       /\ self.n_unk = 0

C15_Witness ==
    /\ kind = "UNK" /\ op = "initialize" /\ sen = 2 /\ SrcUnks = 2
    /\ conf.lambdas = <<1, 3>> /\ self.l = 3 /\ self.n_consumed = 0

\* C16: after every consume the current history of an NgramCountPredictor has
\* at most max_history_len tokens, also when the n-gram file holds unigrams
\* only (max_history_len = 0).
C16_HistoryBounded ==
    (kind = "NGC" /\ op = "consume")
    => Len(heap[self.cur_history]) <= self.max_history_len

\* The last n tokens of a history, n <= Len(hist).
LastTokens(hist, n) == SubSeq(hist, Len(hist) - n + 1, Len(hist))

\* The score the trie holds for the entry (context, w), 0 if it holds none.
EntryScore(context, w) ==
    IF context \in DOMAIN self.ngrams /\ w \in DOMAIN self.ngrams[context]
    THEN self.ngrams[context][w] ELSE 0

\* The tokens w with an entry (s, w) for a suffix s of the history.
SuffixTokens(hist) ==
    {w \in Vocab : \E n \in 0..Len(hist) :
        /\ LastTokens(hist, n) \in DOMAIN self.ngrams
        /\ w \in DOMAIN self.ngrams[LastTokens(hist, n)]}

\* C17: without discounting predict_next returns, for each token w with an
\* entry (s, w) for some suffix s of the history (the empty one included), the
\* sum of the scores of these entries, and no other token; it leaves the trie,
\* the history and every other field as they are.
C17_SumOverSuffixes ==
    [][(kind = "NGC" /\ ~Discounting /\ op' = "predict_next")
       => /\ ret'[1] = [w \in SuffixTokens(heap[self.cur_history]) |->
                          SumSeq([n \in 1..(Len(heap[self.cur_history]) + 1) |->
                                     EntryScore(LastTokens(heap[self.cur_history], n - 1), w)])]
          /\ self' = self
          /\ heap' = heap]_vars

C17_Witness ==
    /\ kind = "NGC" /\ ~Discounting /\ op = "predict_next" /\ sen = 1
    /\ heap[self.cur_history] = <<GO_ID, 4>>
    /\ ret = Some((4 :> EntryScore(<<>>, 4) + EntryScore(<<4>>, 4)))
    /\ EntryScore(<<>>, 4) > 0 /\ EntryScore(<<4>>, 4) > 0


\* C18: at zero consumed tokens predict_next of UnkCountPredictor returns the
\* single key EOS, scored with the Poisson log-probability at the mode index
\* found by initialize (max_prob), for every configured rate.
C18_EosAtMode ==
    (kind = "UNK" /\ op = "predict_next" /\ self.n_consumed = 0)
        => ret = Some((EOS_ID :> PoisAbs(self.max_prob)))


\* predict_next of UnkCountPredictor would return a posterior keyed by UNK.
UnkPhase == self.n_consumed >= 1 /\ self.n_unk >= self.max_prob_idx

\* C19: with at least one token consumed predict_next is keyed by EOS exactly
\* when n_unk is below the mode index and by UNK exactly when it is at or above
\* it; within a sentence and without set_state the UNK phase, once entered, is
\* never left; consuming a token other than UNK changes n_consumed only.
C19_PhaseSwitch ==
    [][kind = "UNK"
       => /\ (op' = "predict_next" /\ self.n_consumed >= 1)
                => DOMAIN ret'[1] = IF self.n_unk < self.max_prob_idx
                                    THEN {EOS_ID} ELSE {UNK_ID}
          /\ (op' = "predict_next" /\ UNK_ID \in DOMAIN ret'[1]) => UnkPhase'
          /\ (pc = "initialized" /\ UnkPhase /\ op' \notin {"initialize", "set_state"})
                => UnkPhase'
          /\ (op' = "consume" /\ arg' # UNK_ID)
                => self' = [self EXCEPT !.n_consumed = @ + 1]]_vars

C19_Witness ==
    /\ kind = "UNK" /\ op = "predict_next" /\ sen = 2
    /\ self.max_prob_idx = 2 /\ self.n_unk = 2 /\ self.n_consumed = 3
    /\ DOMAIN ret[1] = {UNK_ID}


\* C20: initialize of NgramizePredictor records at most
\* max_len_factor * len(source) (posterior, unk fallback) pairs, as many
\* posteriors as unk fallbacks, and no pair after the first position whose
\* arg-max token is EOS.
C20_AtMostMaxLenPairs ==
    (kind = "NGZ" /\ op = "initialize")
        => /\ Len(self.scores) <= self.max_len_factor * Len(SrcSentence(sen))
           /\ Len(self.scores) = Len(self.unk_scores)
           /\ \A i \in 1..(Len(self.scores) - 1) : ArgMax(self.scores[i]) # EOS_ID


C22_HistoryBound ==
    [][(kind = "NGZ" /\ pc' = "initialized")
       => /\ snap' = None
                => Len(heap'[self'.history]) = Min(steps', conf.orders[2] - 1)
          /\ op' = "consume"
                => LET h == Append(heap[self.history], arg')
                       n == Min(Len(h), conf.orders[2] - 1)
                   IN  heap'[self'.history] = [i \in 1..n |-> h[Len(h) - n + i]]
          /\ conf.orders[2] = 1 => heap'[self'.history] = <<>>]_vars

C22_Witness ==
    /\ kind = "NGZ" /\ conf.orders = <<2, 3>> /\ op = "consume" /\ snap = None
    /\ steps = 3 /\ Len(heap[self.history]) = 2 /\ heap[self.history][2] = arg
    /\ heap[self.history][1] # arg


\* The orders the claim calls qualifying: j trailing history tokens with
\* j + 1 >= min_order and an offset pos with pos + j < number of positions.
QualifyingOrders ==
    {j \in 0..Len(heap[self.history]) :
        /\ j + 1 >= self.min_order
        /\ \E pos \in 0..(Len(self.scores) - 1) : pos + j < Len(self.scores)}

\* C23: predict_next of NgramizePredictor combines exactly the orders j with
\* j + 1 >= min_order and some offset pos with pos + j < number of recorded
\* positions; if there is none it returns an empty posterior and the following
\* get_unk_probability returns 0; every index pos + order and pos + order + 1
\* it reads is a recorded position.
C23_OrderQualification ==
    [][kind = "NGZ"
       => /\ op' = "predict_next"
                => /\ NGZQualifying(self, heap[self.history]) = QualifyingOrders
                   /\ QualifyingOrders = {}
                        => ret'[1] = <<>> /\ self'.cur_unk_score = LogOne
                   /\ QualifyingOrders # {} => DOMAIN ret'[1] = Vocab
                   /\ \A j \in 0..Len(heap[self.history]) :
                        \A p \in 1..NGZRows(self, j) : \A i \in 0..j :
                            (p - 1) + i + 1 \in DOMAIN self.scores
          /\ (op' = "get_unk_probability" /\ ret[1] = <<>>)
                => ret'[1] = LogOne]_vars

C23_Witness ==
    /\ kind = "NGZ" /\ op = "get_unk_probability" /\ ret = Some(LogOne)
    /\ self.min_order = 2 /\ heap[self.history] = <<>>
    /\ QualifyingOrders = {} /\ Len(self.scores) > 0


\* C24: predict_next of NgramizePredictor combines the per-order scores of the
\* qualifying orders by log-sum-exp (it adds their probability masses), for
\* the vocabulary scores and for the unknown fallback.
C24_OrdersByLogSumExp ==
    (kind = "NGZ" /\ op = "predict_next" /\ QualifyingOrders # {})
        => LET hist == heap[self.history]
           IN  /\ ret[1] = [w \in Vocab |->
                              FracSum([k \in 1..(Len(hist) + 1) |->
                                  IF (k - 1) \in QualifyingOrders
                                  THEN NGZCombinedScores(self, hist, k - 1)[w]
                                  ELSE NEG_INF])]
               /\ self.cur_unk_score =
                      FracSum([k \in 1..(Len(hist) + 1) |->
                                  IF (k - 1) \in QualifyingOrders
                                  THEN NGZCombinedUnk(self, hist, k - 1)
                                  ELSE NEG_INF])


\* A state of ExternalLengthPredictor with no legal continuation: predict_next
\* gives EOS the score -inf and get_unk_probability returns -inf.
DeadEnd ==
    /\ kind = "EXT" /\ pc = "initialized"
    /\ EXTPosterior(self) = (EOS_ID :> NEG_INF)
    /\ EXTGetUnkProbability(self) = NEG_INF

\* C25: ExternalLengthPredictor reaches a state with no legal continuation by
\* initialize followed by consume calls: every state whose consumed count is
\* above max_length is one, predict_next and get_unk_probability called there
\* return {EOS: -inf} and -inf.
C25_DeadEndBeyondMaxLength ==
    [][(kind = "EXT" /\ pc = "initialized" /\ self.n_consumed > self.max_length)
       => /\ DeadEnd
          /\ op' = "predict_next" => ret' = Some((EOS_ID :> NEG_INF))
          /\ op' = "get_unk_probability" => ret' = Some(NEG_INF)]_vars

C25_Witness ==
    /\ DeadEnd /\ snap = None /\ sen = 2 /\ self.n_consumed = self.max_length + 1
    /\ op = "get_unk_probability" /\ ret = Some(NEG_INF)

OncePerStep(k) ==
    [i \in 1..k |-> NBGetEosPointProb(self, Max(1, i - conf.offset))]

\* C27: in proper-probability mode, with predict_next called once after each
\* consume, prev_eos_probs holds one entry per previous step, the point masses
\* of pairwise distinct lengths max(1, consumed - offset), for every offset:
\* the call at consumed count k adds the mass of a length that none of the
\* k - 1 entries before it stands for.
C27_DistinctLengths ==
    [][(/\ kind = "NB" /\ pc = "initialized" /\ ~conf.use_point_probs
        /\ op' = "predict_next" /\ self.n_consumed >= 1
        /\ heap[self.prev_eos_probs] = OncePerStep(self.n_consumed - 1))
       => /\ heap'[self'.prev_eos_probs] = OncePerStep(self.n_consumed)
          /\ \A i \in 1..(self.n_consumed - 1) :
                Max(1, i - conf.offset) # Max(1, self.n_consumed - conf.offset)]_vars


\* The fields consume keeps up to date: unk_prob is logpois(n_unk + 1) and
\* consumed_prob is logpois(max(n_unk, max_prob_idx)).
UnkBookkeeping ==
    /\ self.unk_prob = UNKGetPoissonProb(self.l, self.n_unk + 1)
    /\ self.consumed_prob =
           UNKGetPoissonProb(self.l, Max(self.n_unk, self.max_prob_idx))

\* What the claim lets predict_next return: the unknown id scored as
\* logpois(n_unk + 1) - logpois(n_unk).
UnkScoredByRatio ==
    UNKPosterior(self) =
        (UNK_ID :> PoisRel(UNKGetPoissonProb(self.l, self.n_unk + 1),
                           UNKGetPoissonProb(self.l, self.n_unk)))

\* C28 as stated: in every state after initialize, unk_prob is
\* logpois(n_unk + 1) and consumed_prob is logpois(max(n_unk, mode index));
\* once n_unk is at or above the mode index, predict_next scores the unknown
\* id as logpois(n_unk + 1) - logpois(n_unk).
C28_RatioOnceAtMode ==
    (kind = "UNK" /\ pc = "initialized")
        => /\ UnkBookkeeping
           /\ self.n_unk >= self.max_prob_idx => UnkScoredByRatio

\* C28, amended: the same, the score of the unknown id being claimed only
\* when at least one token was consumed (at zero consumed tokens predict_next
\* returns the key EOS whatever the mode index is).
C28_RatioOnceAtModeAndConsumed ==
    (kind = "UNK" /\ pc = "initialized")
        => /\ UnkBookkeeping
           /\ (self.n_unk >= self.max_prob_idx /\ self.n_consumed >= 1)
                => /\ UnkScoredByRatio
                   /\ op = "predict_next" => ret = Some(UNKPosterior(self))

C28_Witness ==
    /\ kind = "UNK" /\ op = "predict_next" /\ snap # None
    /\ self.n_unk = 2 /\ self.max_prob_idx = 1 /\ self.n_consumed = 3
    /\ ret = Some((UNK_ID :> PoisRel(UNKGetPoissonProb(self.l, 3),
                                     UNKGetPoissonProb(self.l, 2))))


===========================================================================
